---- MODULE Spec2Model ----
(***************************************************************************)
(* Model of sensorbee/mqtt.                                                *)
(*                                                                         *)
(* The MQTT source (src/source.go): the reconnect loop of                  *)
(* source.GenerateStream, source.Stop, the OnConnectionLost callback and   *)
(* the capacity-one channel s.disconnect that joins them, the broker       *)
(* client handles the loop creates, and the subscription handler that      *)
(* writes the messages of the broker as tuples.                            *)
(*                                                                         *)
(* The MQTT sink (src/sink.go): NewSink, sink.Write with its resolution of *)
(* payload, topic and QoS, and sink.Close.                                 *)
(*                                                                         *)
(* The broker parameter of both, and adjustOldBrokerURL.                   *)
(***************************************************************************)
EXTENDS Integers, Sequences, FiniteSets, TLC

(* ------------------------------ bounds --------------------------------- *)

\* number of client objects mqtt.NewClient may hand out in one run
MaxHandles == 3

\* number of calls of source.Stop in one run
MaxStops == 2

\* width in bits of the (scaled) signed integer that stands for time.Duration
DurBits == 7

(* --------------------------- configurations ---------------------------- *)

\* reconnect_min_time values NewSource may store in s.minWait
MinWaits == {0, 1, 3}

\* the same with a negative duration, which time.ParseDuration accepts too
AnyMinWaits == MinWaits \cup {-1}

\* reconnect_max_time values NewSource may store in s.maxWait
MaxWaits == {2, 30}

\* reconnect_retries values NewSource may store in s.reconnRetries
RetryLimits == {-1, 0, 1}

(* ------------------------------- state --------------------------------- *)

VARIABLES
    minWait,            \* s.minWait
    maxWait,            \* s.maxWait
    reconnRetries,      \* s.reconnRetries
    made,               \* s.disconnect is non-nil (make(chan bool, 1) has run)
    disconnect,         \* buffer of the channel s.disconnect (capacity 1)
    pc,                 \* position of the goroutine running GenerateStream
    result,             \* what GenerateStream returned: "none", "nil", "err"
    client,             \* the client object the local variable client refers to
    waitUntilReconnect, \* local variable of GenerateStream
    retries,            \* local variable of GenerateStream
    timer,              \* state of the time.After timer of the select
    hstate,             \* connection state of every client object
    disc,               \* the Disconnect calls made on every client object
    cb,                 \* state of every client's OnConnectionLost goroutine
    stopNil,            \* Stop calls blocked on the nil channel
    stopBlocked,        \* Stop calls blocked on the full channel
    stopReturned,       \* Stop calls that have returned
    delivered,          \* the messages the clients have passed to msgHandler
    written,            \* the tuples msgHandler has passed to w.Write
    sink,               \* the fields of the sink NewSink returns
    published,          \* the Publish calls made on the sink's client
    last,               \* the tuple and the result of the last sink.Write
    url                 \* argument and result of adjustOldBrokerURL

cfgVars == <<minWait, maxWait, reconnRetries>>
stopVars == <<stopNil, stopBlocked, stopReturned>>
loopVars == <<pc, result, client, waitUntilReconnect, retries, timer>>
vars == <<minWait, maxWait, reconnRetries, made, disconnect, pc, result, client,
          waitUntilReconnect, retries, timer, hstate, disc, cb,
          stopNil, stopBlocked, stopReturned, delivered, written,
          sink, published, last, url>>
msgVars == <<delivered, written>>
sinkVars == <<sink, published, last>>
otherVars == <<delivered, written, sink, published, last, url>>

Handles == 1..MaxHandles

RECURSIVE Pow2(_)
Pow2(n) == IF n = 0 THEN 1 ELSE 2 * Pow2(n - 1)

\* two's complement wrap-around of a Duration (int64 in the code)
Wrap(x) == ((x + Pow2(DurBits - 1)) % Pow2(DurBits)) - Pow2(DurBits - 1)

\* capacity of s.disconnect
ChanCap == 1

\* a client whose network connection is up
Connected(h) == hstate[h] \in {"connected", "subscribing", "subscribed"}

\* connection-lost signals not yet consumed by the loop
PendingLost == Cardinality({h \in Handles : cb[h] \in {"run", "blocked"}})
               + (IF disconnect = <<TRUE>> THEN 1 ELSE 0)

\* the environment may cause one more client allocation
MayAllocate == client + PendingLost + 1 <= MaxHandles

TypeOK ==
    /\ minWait \in AnyMinWaits /\ maxWait \in MaxWaits /\ reconnRetries \in RetryLimits
    /\ made \in BOOLEAN
    /\ disconnect \in {<<>>, <<TRUE>>, <<FALSE>>}
    /\ pc \in {"init", "wait", "connect", "subscribe", "active", "done"}
    /\ result \in {"none", "nil", "err"}
    /\ client \in 0..MaxHandles
    /\ waitUntilReconnect \in Int
    /\ retries \in Nat
    /\ timer \in {"off", "running", "fired"}
    /\ hstate \in [Handles -> {"new", "connecting", "connected", "subscribing",
                               "subscribed", "lost", "closed"}]
    /\ disc \in [Handles -> Seq({0, 250})]
    /\ cb \in [Handles -> {"none", "run", "blocked", "done"}]
    /\ stopNil \in Nat /\ stopBlocked \in Nat /\ stopReturned \in Nat

(* ----------------------------- data values ----------------------------- *)

\* a data.Value: its type, its characters, bytes, elements or key-value
\* pairs, and its number.  A string is the sequence of its characters.
Value(t, v, n) == [type |-> t, val |-> v, num |-> n]

\* what Get and the lookup in params give for a key that is not there
Absent == Value("absent", <<>>, 0)

String(s) == Value("string", s, 0)
Blob(b) == Value("blob", b, 0)
Array(a) == Value("array", a, 0)
Map(m) == Value("map", m, 0)
DataInt(n) == Value("int", <<>>, n)

\* the text of a JSON string with the characters c
Quote(c) == <<"\"">> \o c \o <<"\"">>

\* the elements of a data.Array of one-character strings, as JSON
RECURSIVE JSONElements(_)
JSONElements(a) ==
    IF a = <<>> THEN <<>>
    ELSE IF Len(a) = 1 THEN Quote(<<a[1]>>)
    ELSE Quote(<<a[1]>>) \o <<",">> \o JSONElements(Tail(a))

\* the members of a data.Map (key, value, key, value, ...), as JSON
RECURSIVE JSONMembers(_)
JSONMembers(m) ==
    IF m = <<>> THEN <<>>
    ELSE IF Len(m) = 2 THEN Quote(<<m[1]>>) \o <<":">> \o Quote(<<m[2]>>)
    ELSE Quote(<<m[1]>>) \o <<":">> \o Quote(<<m[2]>>) \o <<",">>
         \o JSONMembers(SubSeq(m, 3, Len(m)))

\* the elements or members as they are, with no encoding
ValueRaw(p) == p.val

\* p.String() of an array or a map: its JSON text
ValueString(p) ==
    IF p.type = "array" THEN <<"[">> \o JSONElements(p.val) \o <<"]">>
    ELSE <<"{">> \o JSONMembers(p.val) \o <<"}">>

\* data.AsString and data.AsInt succeed on a value of their own type only
IsString(v) == v.type = "string"
IsInt(v) == v.type = "int"

(* ------------------------- components at rest -------------------------- *)

\* no sink has been asked for
NoSink ==
    /\ sink = [state |-> "none"]
    /\ published = <<>>
    /\ last = [wrote |-> FALSE]

\* no address has been returned, or given to AddBroker, yet
NoAddress == [state |-> "none", addr |-> <<>>]

\* no broker parameter has been given
NoURL == url = [in |-> <<>>, out |-> NoAddress, source |-> NoAddress,
                sink |-> NoAddress]

\* the source NewSource returns, before GenerateStream is called
NewSource ==
    /\ maxWait \in MaxWaits
    /\ reconnRetries \in RetryLimits
    /\ made = FALSE
    /\ disconnect = <<>>
    /\ pc = "init"
    /\ result = "none"
    /\ client = 0
    /\ waitUntilReconnect = 0
    /\ retries = 0
    /\ timer = "off"
    /\ hstate = [h \in Handles |-> "new"]
    /\ disc = [h \in Handles |-> <<>>]
    /\ cb = [h \in Handles |-> "none"]
    /\ stopNil = 0
    /\ stopBlocked = 0
    /\ stopReturned = 0
    /\ delivered = <<>>
    /\ written = <<>>

Init == minWait \in MinWaits /\ NewSource /\ NoSink /\ NoURL

\* as Init, with the negative reconnect_min_time among the configurations
InitAnyDuration == minWait \in AnyMinWaits /\ NewSource /\ NoSink /\ NoURL

(* ------------------------------ backoff -------------------------------- *)

\* the value backoff() leaves in waitUntilReconnect
BackoffWait(w) ==
    LET d == IF w = 0 THEN minWait ELSE Wrap(w * 2)
    IN  IF d > maxWait THEN maxWait ELSE d

\* mutant of BackoffGivesUp: the test for a negative ceiling is missing
BackoffGivesUpAnyLimit(r) == r > reconnRetries

\* backoff() returns the "Gave up" error
BackoffGivesUp(r) == reconnRetries >= 0 /\ r > reconnRetries

\* the value backoff() leaves in retries
BackoffRetries(r) ==
    IF reconnRetries >= 0 /\ ~(r > reconnRetries) THEN r + 1 ELSE r

\* the timer of the select for a wait of w
StartTimer(w) == IF w > 0 THEN "running" ELSE "fired"

(* --------------------------- client objects ---------------------------- *)

\* client.Disconnect(q) on client h
DisconnectCall(h, q) ==
    /\ disc' = [disc EXCEPT ![h] = Append(@, q)]
    /\ hstate' = [hstate EXCEPT ![h] =
                      IF Connected(h) \/ @ = "connecting" THEN "closed" ELSE @]

(* ---------------------------- GenerateStream --------------------------- *)

\* mutant of BreaksLoop: the select ignores the value it received
BreaksLoopNever(needsReconnect) == FALSE

\* mutant of BreaksLoop: every value received in the select ends the run
BreaksLoopAlways(needsReconnect) == TRUE

\* line 99: if !needsReconnect { break ReconnectLoop }
BreaksLoop(needsReconnect) == ~needsReconnect

\* mutant of ShutsDown: every value received in the connected state ends the run
ShutsDownAlways(needsReconnect) == TRUE

\* mutant of ShutsDown: no value received in the connected state ends the run
ShutsDownNever(needsReconnect) == FALSE

\* line 135: if !needsReconnect { client.Disconnect(250); break }
ShutsDown(needsReconnect) == ~needsReconnect

\* line 129: waitUntilReconnect = 0 * time.Second
SuccessWait(w) == 0

\* mutant of SuccessRetries: the retry counter survives a success
SuccessRetriesKept(r) == r

\* line 130: retries = 0
SuccessRetries(r) == 0

\* lines 31-66: make the channel, create the first client
Start ==
    /\ pc = "init"
    /\ made' = TRUE
    /\ client' = 1
    /\ waitUntilReconnect' = 0
    /\ retries' = 0
    /\ timer' = StartTimer(0)
    /\ pc' = "wait"
    /\ UNCHANGED <<cfgVars, disconnect, result, hstate, disc, cb, stopVars>>
    /\ UNCHANGED otherVars

\* the timer of the select elapses.  A select that finds a value buffered
\* in s.disconnect while its timer has not elapsed takes the receive, so
\* the timer only elapses on a loop that is blocked with the slot empty.
Tick ==
    /\ pc = "wait"
    /\ timer = "running"
    /\ disconnect = <<>>
    /\ timer' = "fired"
    /\ UNCHANGED <<cfgVars, made, disconnect, pc, result, client,
                   waitUntilReconnect, retries, hstate, disc, cb, stopVars>>
    /\ UNCHANGED otherVars

\* select, case <-time.After(waitUntilReconnect)
WaitTimeout ==
    /\ pc = "wait"
    /\ timer = "fired"
    /\ pc' = "connect"
    /\ timer' = "off"
    /\ UNCHANGED <<cfgVars, made, disconnect, result, client,
                   waitUntilReconnect, retries, hstate, disc, cb, stopVars>>
    /\ UNCHANGED otherVars

\* select, case needsReconnect := <-s.disconnect
WaitRecv ==
    /\ pc = "wait"
    /\ disconnect # <<>>
    /\ disconnect' = Tail(disconnect)
    /\ timer' = "off"
    /\ IF BreaksLoop(Head(disconnect))
       THEN pc' = "done" /\ result' = "nil"
       ELSE pc' = "connect" /\ result' = result
    /\ UNCHANGED <<cfgVars, made, client, waitUntilReconnect, retries,
                   hstate, disc, cb, stopVars>>
    /\ UNCHANGED otherVars

\* the outcomes of waiting 10 s for a token: completed without error,
\* completed with an error, not completed in time
Outcomes == {"ok", "fail", "timeout"}

\* tok.WaitTimeout(10*time.Second) && tok.Error() != nil
TokenFailed(o) == o = "fail"

\* line 106: client.Connect() and the wait for its token
Connect ==
    /\ pc = "connect"
    /\ \E o \in Outcomes :
        /\ hstate' = [hstate EXCEPT ![client] =
                          CASE o = "ok" -> "connected"
                            [] o = "timeout" -> "connecting"
                            [] OTHER -> @]
        /\ IF TokenFailed(o)
           THEN /\ waitUntilReconnect' = BackoffWait(waitUntilReconnect)
                /\ retries' = BackoffRetries(retries)
                /\ IF BackoffGivesUp(retries)
                   THEN pc' = "done" /\ result' = "err" /\ timer' = "off"
                   ELSE /\ pc' = "wait"
                        /\ result' = result
                        /\ timer' = StartTimer(BackoffWait(waitUntilReconnect))
           ELSE /\ pc' = "subscribe"
                /\ UNCHANGED <<waitUntilReconnect, retries, result, timer>>
    /\ UNCHANGED <<cfgVars, made, disconnect, client, disc, cb, stopVars>>
    /\ UNCHANGED otherVars

\* the outcomes client.Subscribe can have on client h
SubscribeOutcomes(h) ==
    IF hstate[h] = "connected" THEN Outcomes ELSE {"fail", "timeout"}

\* lines 116-130: client.Subscribe(...) and the wait for its token
Subscribe ==
    /\ pc = "subscribe"
    /\ \E o \in SubscribeOutcomes(client) :
        IF TokenFailed(o)
        THEN /\ BackoffGivesUp(retries) \/ MayAllocate
             /\ waitUntilReconnect' = BackoffWait(waitUntilReconnect)
             /\ retries' = BackoffRetries(retries)
             /\ IF BackoffGivesUp(retries)
                THEN /\ pc' = "done"
                     /\ result' = "err"
                     /\ timer' = "off"
                     /\ UNCHANGED <<client, hstate, disc>>
                ELSE /\ DisconnectCall(client, 0)
                     /\ client' = client + 1
                     /\ pc' = "wait"
                     /\ result' = result
                     /\ timer' = StartTimer(BackoffWait(waitUntilReconnect))
        ELSE /\ hstate' = [hstate EXCEPT ![client] =
                              IF @ = "connected"
                              THEN (IF o = "ok" THEN "subscribed" ELSE "subscribing")
                              ELSE @]
             /\ waitUntilReconnect' = SuccessWait(waitUntilReconnect)
             /\ retries' = SuccessRetries(retries)
             /\ pc' = "active"
             /\ UNCHANGED <<client, disc, result, timer>>
    /\ UNCHANGED <<cfgVars, made, disconnect, cb, stopVars>>
    /\ UNCHANGED otherVars

\* lines 134-143: needsReconnect := <-s.disconnect in the connected state
ActiveRecv ==
    /\ pc = "active"
    /\ disconnect # <<>>
    /\ disconnect' = Tail(disconnect)
    /\ IF ShutsDown(Head(disconnect))
       THEN /\ DisconnectCall(client, 250)
            /\ pc' = "done"
            /\ result' = "nil"
            /\ UNCHANGED <<client, timer>>
       ELSE /\ client' = client + 1
            /\ pc' = "wait"
            /\ timer' = StartTimer(waitUntilReconnect)
            /\ UNCHANGED <<result, hstate, disc>>
    /\ UNCHANGED <<cfgVars, made, waitUntilReconnect, retries, cb, stopVars>>
    /\ UNCHANGED otherVars

(* -------------------------------- Stop --------------------------------- *)

\* line 151: s.disconnect <- false, as far as it gets at once
Stop ==
    /\ stopNil + stopBlocked + stopReturned < MaxStops
    /\ IF ~made
       THEN /\ stopNil' = stopNil + 1
            /\ UNCHANGED <<disconnect, stopBlocked, stopReturned>>
       ELSE IF Len(disconnect) < ChanCap
       THEN /\ disconnect' = Append(disconnect, FALSE)
            /\ stopReturned' = stopReturned + 1
            /\ UNCHANGED <<stopNil, stopBlocked>>
       ELSE /\ stopBlocked' = stopBlocked + 1
            /\ UNCHANGED <<disconnect, stopNil, stopReturned>>
    /\ UNCHANGED <<cfgVars, made, loopVars, hstate, disc, cb>>
    /\ UNCHANGED otherVars

\* a Stop blocked on the full channel completes its send and returns
StopUnblock ==
    /\ stopBlocked > 0
    /\ Len(disconnect) < ChanCap
    /\ disconnect' = Append(disconnect, FALSE)
    /\ stopBlocked' = stopBlocked - 1
    /\ stopReturned' = stopReturned + 1
    /\ UNCHANGED <<cfgVars, made, loopVars, hstate, disc, cb, stopNil>>
    /\ UNCHANGED otherVars

(* ------------------------- the broker client --------------------------- *)

\* the network connection of client h breaks: OnConnectionLost is started
ConnLost(h) ==
    /\ Connected(h)
    /\ MayAllocate
    /\ hstate' = [hstate EXCEPT ![h] = "lost"]
    /\ cb' = [cb EXCEPT ![h] = "run"]
    /\ UNCHANGED <<cfgVars, made, disconnect, loopVars, disc, stopVars>>
    /\ UNCHANGED otherVars

\* mutant of CbSend: a send that overwrites the slot instead of blocking
CbSendOverwrite(h) ==
    /\ cb[h] = "run"
    /\ disconnect' = <<TRUE>>
    /\ cb' = [cb EXCEPT ![h] = "done"]
    /\ UNCHANGED <<cfgVars, made, loopVars, hstate, disc, stopVars>>
    /\ UNCHANGED otherVars

\* lines 43-48: OnConnectionLost reaches s.disconnect <- true
CbSend(h) ==
    /\ cb[h] = "run"
    /\ IF Len(disconnect) < ChanCap
       THEN disconnect' = Append(disconnect, TRUE) /\ cb' = [cb EXCEPT ![h] = "done"]
       ELSE disconnect' = disconnect /\ cb' = [cb EXCEPT ![h] = "blocked"]
    /\ UNCHANGED <<cfgVars, made, loopVars, hstate, disc, stopVars>>
    /\ UNCHANGED otherVars

\* an OnConnectionLost blocked on the full channel completes its send
CbUnblock(h) ==
    /\ cb[h] = "blocked"
    /\ Len(disconnect) < ChanCap
    /\ disconnect' = Append(disconnect, TRUE)
    /\ cb' = [cb EXCEPT ![h] = "done"]
    /\ UNCHANGED <<cfgVars, made, loopVars, hstate, disc, stopVars>>
    /\ UNCHANGED otherVars

\* a Connect or Subscribe token completes after its 10 s wait was given up
LateComplete(h) ==
    /\ hstate[h] \in {"connecting", "subscribing"}
    /\ hstate' = [hstate EXCEPT ![h] =
                      IF @ = "connecting" THEN "connected" ELSE "subscribed"]
    /\ UNCHANGED <<cfgVars, made, disconnect, loopVars, disc, cb, stopVars>>
    /\ UNCHANGED otherVars

(* ---------------------------- specification ---------------------------- *)

Next ==
    \/ Start
    \/ Tick
    \/ WaitTimeout
    \/ WaitRecv
    \/ Connect
    \/ Subscribe
    \/ ActiveRecv
    \/ Stop
    \/ StopUnblock
    \/ \E h \in Handles : ConnLost(h)
    \/ \E h \in Handles : CbSend(h)
    \/ \E h \in Handles : CbUnblock(h)
    \/ \E h \in Handles : LateComplete(h)

Spec == Init /\ [][Next]_vars

AnyDurationSpec == InitAnyDuration /\ [][Next]_vars

\* Scheduling assumed for termination: every enabled step of the loop is
\* eventually taken, the timer elapses, a token wait ends (WaitTimeout bounds
\* it by 10 s), and a blocked sender proceeds once the slot is free.  The
\* select of lines 96-102 chooses among its ready cases uniformly at random,
\* so a receive that is ready at infinitely many selects is eventually
\* chosen: strong fairness for WaitRecv.
Fairness ==
    /\ WF_vars(Tick)
    /\ WF_vars(WaitTimeout)
    /\ SF_vars(WaitRecv)
    /\ WF_vars(Connect)
    /\ WF_vars(Subscribe)
    /\ WF_vars(ActiveRecv)
    /\ WF_vars(StopUnblock)

FairSpec == Init /\ [][Next]_vars /\ Fairness

(* ------------------------------- claims -------------------------------- *)

\* a Stop call has reached the channel made by GenerateStream
StopSent == stopBlocked + stopReturned > 0

\* the loop takes a value out of s.disconnect in this step
Consumes(v) == disconnect = <<v>> /\ disconnect' = <<>>

\* this step is a connect or subscribe failure (backoff() is applied)
FailureStep == pc \in {"connect", "subscribe"} /\ pc' \in {"wait", "done"}

\* C1: once Stop has sent (or is blocked sending) on the channel while the
\* loop is waiting, connecting, subscribing or active, GenerateStream
\* eventually returns.
C1_StopTerminates == StopSent ~> pc = "done"

\* C1 witness: a stop consumed in the connected state ended the run
C1_Witness ==
    /\ pc = "done" /\ result = "nil" /\ StopSent
    /\ \E h \in Handles : disc[h] = <<250>>

\* C2: at most one client is connected and subscribed at any time.
C2_AtMostOneActive ==
    Cardinality({h \in Handles : hstate[h] = "subscribed"}) <= 1

\* C3: a false sent by Stop stays in the slot until the loop receives it
\* (and then the loop returns nil); no send replaces it, and every Stop that
\* returned has its signal either in the slot or consumed.
C3_StopNeverLost ==
    [][ /\ disconnect = <<FALSE>> =>
             \/ disconnect' = <<FALSE>>
             \/ disconnect' = <<>> /\ pc # "done" /\ pc' = "done" /\ result' = "nil"
        /\ stopReturned' = (IF disconnect' = <<FALSE>> THEN 1 ELSE 0)
                           + (IF result' = "nil" THEN 1 ELSE 0)
      ]_vars

\* C3 witness: a stop signal is pending in the slot while a connection-lost
\* callback that came afterwards is held back behind it
C3_Witness == disconnect = <<FALSE>> /\ \E h \in Handles : cb[h] = "blocked"

\* C4: once Stop has been called, receiving a connection-lost signal never
\* makes the loop allocate a fresh client or start a connect attempt.
C4_StopPrecedence ==
    [][ (StopSent /\ Consumes(TRUE)) => (client' = client /\ pc' # "connect") ]_vars

\* C5: no call of Stop blocks forever, whenever it is made, and the graceful
\* Disconnect(250) is issued at most once.
C5_StopNeverStuck ==
    /\ stopNil = 0
    /\ (pc = "done" /\ disconnect # <<>>) => stopBlocked = 0
    /\ Cardinality({h \in Handles : 250 \in {disc[h][i] : i \in DOMAIN disc[h]}}) <= 1
    /\ \A h \in Handles : Len(disc[h]) <= 1

\* C6: the send of the OnConnectionLost callback never blocks.
C6_CallbackNeverBlocks == \A h \in Handles : cb[h] # "blocked"

\* C7: for minWait <= maxWait every failure leaves a wait in
\* [minWait, maxWait]: minWait after the first failure of an outage, then
\* twice the previous wait clamped to maxWait, never less than before.
C7_BackoffBounded ==
    [][ (FailureStep /\ minWait <= maxWait) =>
            /\ minWait <= waitUntilReconnect'
            /\ waitUntilReconnect' <= maxWait
            /\ waitUntilReconnect # 0 => waitUntilReconnect' >= waitUntilReconnect
      ]_vars

\* C8: whenever the loop is in the connected state (a subscribe has just
\* succeeded), the backoff wait and the retry counter are zero.
C8_SuccessResets == pc = "active" => (waitUntilReconnect = 0 /\ retries = 0)

\* C8 witness: connected after a subscribe failure that was counted
C8_Witness ==
    /\ pc = "active" /\ reconnRetries >= 0
    /\ \E h \in Handles : h < client /\ disc[h] = <<0>>

C10_NeverGivesUp ==
    reconnRetries < 0 => (result # "err" /\ (pc = "done" => (result = "nil" /\ StopSent)))

\* C10 witness: six failures in a row (1, 2, 4, 8, 16, 30) and then a stop
C10_Witness ==
    /\ reconnRetries < 0 /\ minWait = 1 /\ maxWait = 30
    /\ waitUntilReconnect = 30 /\ pc = "done" /\ result = "nil"

(* ======================================================================= *)
(* The MQTT sink (src/sink.go, from line 175): NewSink, sink.Write and     *)
(* sink.Close, and the connection of the one client the sink owns.         *)
(* ======================================================================= *)

\* number of Publish calls in one run
MaxPublishes == 1

\* the default_topic and default_qos parameters given to NewSink
SinkParameters ==
    {[default_topic |-> Absent, default_qos |-> Absent],
     [default_topic |-> String(<<"d">>), default_qos |-> DataInt(1)],
     [default_topic |-> String(<<>>), default_qos |-> DataInt(1)],
     [default_topic |-> DataInt(7), default_qos |-> Absent],
     [default_topic |-> String(<<"d">>), default_qos |-> DataInt(3)],
     [default_topic |-> String(<<"d">>), default_qos |-> DataInt(-1)],
     [default_topic |-> Absent, default_qos |-> String(<<"1">>)]}

\* values of the payload, topic and qos fields of the tuples written
PayloadFields == {Absent, String(<<"h", "i">>), Blob(<<"h", "i">>),
                  Array(<<"a", "b">>), Map(<<"k", "v">>), DataInt(7)}
TopicFields == {Absent, String(<<"t">>), DataInt(7)}
QosFields == {Absent, DataInt(-1), DataInt(2), DataInt(3), String(<<"1">>)}

\* the tuples written to the sink
Tuples == [payload : PayloadFields, topic : TopicFields, qos : QosFields]

\* the caller has the parameters of a sink and has not called NewSink yet
SinkParams ==
    /\ \E ps \in SinkParameters :
          sink = [state |-> "params", default_topic |-> ps.default_topic,
                  default_qos |-> ps.default_qos]
    /\ published = <<>>
    /\ last = [wrote |-> FALSE]

\* a source that is not run
IdleSource == minWait = 1 /\ maxWait = 30 /\ reconnRetries = -1 /\ NewSource

SinkInit == IdleSource /\ SinkParams /\ NoURL

\* byte(q) of an int64
Byte(q) == q % 256

\* a range check that lets every default_qos pass
QosAnyRange(q) == TRUE

\* the range check of default_qos
QosInRange(q) == ~(q < 0 \/ q > 2)

\* the error NewSink returns for its parameters, "" for none
ParamsError(ps) ==
    IF ps.default_topic # Absent /\ ~IsString(ps.default_topic)
    THEN "default_topic type"
    ELSE IF ps.default_topic # Absent /\ ps.default_topic.val = <<>>
    THEN "empty default topic is not supported"
    ELSE IF ps.default_qos # Absent /\ ~IsInt(ps.default_qos)
    THEN "default_qos type"
    ELSE IF ps.default_qos # Absent /\ ~QosInRange(ps.default_qos.num)
    THEN "Unknown QoS"
    ELSE ""

\* NewSink(ctx, ioParams, params); up is the outcome of client.Connect
NewSink ==
    /\ sink.state = "params"
    /\ \E up \in BOOLEAN :
          IF ParamsError(sink) # "" \/ ~up
          THEN sink' = [state |-> "failed"]
          ELSE sink' = [state |-> "built",
                        qos |-> IF sink.default_qos = Absent THEN 0
                                ELSE Byte(sink.default_qos.num),
                        retained |-> FALSE,
                        payloadPath |-> "payload",
                        topicPath |-> "topic",
                        qosPath |-> "qos",
                        defaultTopic |-> IF sink.default_topic = Absent THEN <<>>
                                         ELSE sink.default_topic.val,
                        connected |-> TRUE,
                        disc |-> <<>>]
    /\ UNCHANGED <<published, last, url, msgVars>>
    /\ UNCHANGED <<cfgVars, made, disconnect, loopVars, hstate, disc, cb, stopVars>>

\* an error of Write, with nothing to publish
Failed(e) == [err |-> e, b |-> <<>>, topic |-> <<>>, qos |-> 0]

\* a Write that does nothing at all
IsConnectedAlways == TRUE

\* s.client.IsConnected()
IsConnected == sink.connected

\* t.Data.Get(path): the value of the field, Absent standing for the error
Get(t, path) == t[path]

\* lines 206-222: the bytes to publish
PayloadBytes(t) ==
    LET p == Get(t, sink.payloadPath)
    IN  CASE p = Absent -> Failed("payload field is missing")
          [] p.type = "string" -> [Failed("") EXCEPT !.b = p.val]
          [] p.type = "blob" -> [Failed("") EXCEPT !.b = p.val]
          [] p.type \in {"array", "map"} -> [Failed("") EXCEPT !.b = ValueString(p)]
          [] OTHER -> Failed("data type cannot be used as payload")

\* a topic resolution that never looks at the tuple
TopicFromDefault(t) ==
    IF sink.defaultTopic = <<>> THEN Failed("topic field is missing")
    ELSE [Failed("") EXCEPT !.topic = sink.defaultTopic]

\* lines 224-232: the topic to publish to
Topic(t) ==
    LET to == Get(t, sink.topicPath)
    IN  IF to = Absent
        THEN IF sink.defaultTopic = <<>>
             THEN Failed("topic field is missing")
             ELSE [Failed("") EXCEPT !.topic = sink.defaultTopic]
        ELSE IF ~IsString(to) THEN Failed("topic is not a string")
             ELSE [Failed("") EXCEPT !.topic = to.val]

\* lines 234-246: the QoS to publish with
Qos(t) ==
    LET q == Get(t, sink.qosPath)
    IN  IF q = Absent THEN [Failed("") EXCEPT !.qos = sink.qos]
        ELSE IF ~IsInt(q) THEN Failed("qos is not an integer")
        ELSE IF q.num < 0 \/ q.num > 2 THEN Failed("Wrong QoS")
        ELSE [Failed("") EXCEPT !.qos = Byte(q.num)]

\* what Write does with t up to the Publish call: the first error in the
\* order of the code, or the arguments of Publish
Resolve(t) ==
    IF PayloadBytes(t).err # "" THEN PayloadBytes(t)
    ELSE IF Topic(t).err # "" THEN Topic(t)
    ELSE IF Qos(t).err # "" THEN Qos(t)
    ELSE [err |-> "", b |-> PayloadBytes(t).b, topic |-> Topic(t).topic,
          qos |-> Qos(t).qos]

\* the errors a publish token may end with, "" for none
TokenErrors == {"", "publish failed"}

\* what the caller of Write sees of the call
Wrote(t, e, sent) ==
    [wrote |-> TRUE, tuple |-> t, up |-> sink.connected, err |-> e,
     sent |-> sent]

\* a return that drops the connection when it returns an error
ReturnDisconnecting(t, e) ==
    /\ last' = Wrote(t, e, FALSE)
    /\ published' = published
    /\ sink' = IF e = "" THEN sink ELSE [sink EXCEPT !.connected = FALSE]

\* the return statements of Write before the Publish call
Return(t, e) ==
    /\ last' = Wrote(t, e, FALSE)
    /\ published' = published
    /\ sink' = sink

\* lines 248-252: the Publish call and the wait for its token
Publish(t, r) ==
    /\ Len(published) < MaxPublishes
    /\ published' = Append(published,
                           [topic |-> r.topic, qos |-> r.qos,
                            retained |-> sink.retained, payload |-> r.b])
    /\ \E e \in TokenErrors : last' = Wrote(t, e, TRUE)
    /\ sink' = sink

\* sink.Write(ctx, t)
Write(t) ==
    /\ sink.state = "built"
    /\ IF ~IsConnected THEN Return(t, "")
       ELSE LET r == Resolve(t)
            IN  IF r.err # "" THEN Return(t, r.err) ELSE Publish(t, r)
    /\ UNCHANGED <<url, msgVars>>
    /\ UNCHANGED <<cfgVars, made, disconnect, loopVars, hstate, disc, cb, stopVars>>

\* sink.Close(ctx): s.client.Disconnect(250)
Close ==
    /\ sink.state = "built"
    /\ sink.disc = <<>>
    /\ sink' = [sink EXCEPT !.connected = FALSE, !.disc = Append(@, 250)]
    /\ UNCHANGED <<published, last, url, msgVars>>
    /\ UNCHANGED <<cfgVars, made, disconnect, loopVars, hstate, disc, cb, stopVars>>

\* the connection of the sink's client breaks
SinkConnLost ==
    /\ sink.state = "built"
    /\ sink.connected
    /\ sink' = [sink EXCEPT !.connected = FALSE]
    /\ UNCHANGED <<published, last, url, msgVars>>
    /\ UNCHANGED <<cfgVars, made, disconnect, loopVars, hstate, disc, cb, stopVars>>

\* the client, made with the default options, reconnects by itself
SinkReconnect ==
    /\ sink.state = "built"
    /\ ~sink.connected
    /\ sink.disc = <<>>
    /\ sink' = [sink EXCEPT !.connected = TRUE]
    /\ UNCHANGED <<published, last, url, msgVars>>
    /\ UNCHANGED <<cfgVars, made, disconnect, loopVars, hstate, disc, cb, stopVars>>

SinkNext ==
    \/ NewSink
    \/ \E t \in Tuples : Write(t)
    \/ Close
    \/ SinkConnLost
    \/ SinkReconnect

SinkSpec == SinkInit /\ [][SinkNext]_vars

\* the last call of Write gave a tuple with a payload, topic or QoS error
ShapeError(t) == Resolve(t).err # ""

\* C11: a Write on a sink whose client is not connected returns nil and
\* makes no Publish call, whatever the tuple, the tuples with a payload, a
\* topic or a QoS error included.
C11_NotConnectedNoOp ==
    (sink.state = "built" /\ last.wrote /\ ~last.up)
        => (last.err = "" /\ ~last.sent)

\* a tuple with an error has been written to a sink that is not connected
C11_Witness ==
    /\ sink.state = "built" /\ last.wrote /\ ~last.up
    /\ ShapeError(last.tuple)
    /\ last.err = ""

\* the last Write was made on a connected sink
WroteConnected == sink.state = "built" /\ last.wrote /\ last.up

\* the last Write reached the topic: connected, and the payload was usable
ReachedTopic ==
    /\ WroteConnected
    /\ last.tuple.payload.type \in {"string", "blob", "array", "map"}

\* the Publish call of the last Write
LastPublish == published[Len(published)]

\* C12: topic resolution in Write.  A topic field that is a string is the
\* topic of the Publish call; a topic field of another type gives the
\* conversion error and no Publish call; without a topic field the default
\* topic is used when one is set, and otherwise the topic-missing error is
\* returned and no Publish call is made.
C12_TopicResolution ==
    ReachedTopic =>
        LET to == last.tuple.topic
        IN  /\ (to.type = "string" /\ last.sent) => LastPublish.topic = to.val
            /\ (to.type \notin {"string", "absent"}) =>
                   (last.err = "topic is not a string" /\ ~last.sent)
            /\ (to = Absent /\ sink.defaultTopic # <<>> /\ last.sent) =>
                   LastPublish.topic = sink.defaultTopic
            /\ (to = Absent /\ sink.defaultTopic = <<>>) =>
                   (last.err = "topic field is missing" /\ ~last.sent)
            /\ (to.type \in {"string", "absent"} /\ last.err # ""
                /\ ~(to = Absent /\ sink.defaultTopic = <<>>)) =>
                   last.err \in {"qos is not an integer", "Wrong QoS",
                                 "publish failed"}

\* a tuple without topic field has been published to the default topic
C12_Witness ==
    /\ ReachedTopic
    /\ last.tuple.topic = Absent
    /\ last.sent
    /\ LastPublish.topic = <<"d">>

\* the last Write reached the QoS: the payload and the topic were resolved
ReachedQos ==
    /\ ReachedTopic
    /\ \/ last.tuple.topic.type = "string"
       \/ last.tuple.topic = Absent /\ sink.defaultTopic # <<>>

\* C13: every Publish call of the sink carries a QoS of 0, 1 or 2.  The qos
\* field of a tuple is used only if it is 0, 1 or 2, any other qos field
\* gives an error and no Publish call, and without a qos field the default
\* QoS that NewSink has validated is used.
C13_QosInRange ==
    /\ \A i \in 1..Len(published) : published[i].qos \in {0, 1, 2}
    /\ ReachedQos =>
        LET q == last.tuple.qos
        IN  /\ last.sent =>
                  \/ q = Absent /\ LastPublish.qos = sink.qos
                  \/ q.type = "int" /\ q.num \in {0, 1, 2}
                     /\ LastPublish.qos = q.num
            /\ (q.type = "int" /\ q.num \notin {0, 1, 2}) =>
                   (last.err = "Wrong QoS" /\ ~last.sent)
            /\ (q.type \notin {"int", "absent"}) =>
                   (last.err = "qos is not an integer" /\ ~last.sent)
            /\ (q = Absent \/ (q.type = "int" /\ q.num \in {0, 1, 2})) =>
                   last.sent

\* a tuple without qos field has been published with the default_qos of 1
C13_Witness ==
    /\ ReachedQos
    /\ last.tuple.qos = Absent
    /\ last.sent
    /\ sink.qos = 1
    /\ LastPublish.qos = 1

\* the JSON texts ["a","b"] and {"k":"v"}
JSONTextAB == <<"[", "\"", "a", "\"", ",", "\"", "b", "\"", "]">>
JSONTextKV == <<"{", "\"", "k", "\"", ":", "\"", "v", "\"", "}">>

\* C14: payload resolution in Write.  Without the payload field Write
\* returns an error; a string or blob payload is published as its own
\* bytes; an array or map payload is published as the bytes of its JSON
\* text; a payload of another type gives the unsupported-type error; no
\* Publish call is made in the error cases.
C14_PayloadResolution ==
    WroteConnected =>
        LET p == last.tuple.payload
        IN  /\ p = Absent =>
                   (last.err = "payload field is missing" /\ ~last.sent)
            /\ (p.type \in {"string", "blob"} /\ last.sent) =>
                   LastPublish.payload = p.val
            /\ (p = Array(<<"a", "b">>) /\ last.sent) =>
                   LastPublish.payload = JSONTextAB
            /\ (p = Map(<<"k", "v">>) /\ last.sent) =>
                   LastPublish.payload = JSONTextKV
            /\ (p.type \notin {"absent", "string", "blob", "array", "map"}) =>
                   (last.err = "data type cannot be used as payload"
                    /\ ~last.sent)
            /\ (last.err \in {"payload field is missing",
                              "data type cannot be used as payload"}) =>
                   p.type \notin {"string", "blob", "array", "map"}

\* a map payload has been published as its JSON text
C14_Witness ==
    /\ WroteConnected
    /\ last.tuple.payload.type = "map"
    /\ last.sent
    /\ LastPublish.payload = JSONTextKV

\* the errors of Write that come from the shape of the tuple
ShapeErrors ==
    {"payload field is missing", "data type cannot be used as payload",
     "topic field is missing", "topic is not a string",
     "qos is not an integer", "Wrong QoS"}

\* this step is a Write that returns a record-shape error
FailingWrite == last' # last /\ last'.err \in ShapeErrors

\* tuples without a record-shape error
WellFormed ==
    {[payload |-> String(<<"h", "i">>), topic |-> String(<<"t">>), qos |-> Absent],
     [payload |-> Map(<<"k", "v">>), topic |-> String(<<"t">>), qos |-> DataInt(2)]}

\* C16: a record-shape error is local to its Write.  The failing Write makes
\* no Publish and no Disconnect call and leaves the fields and the client of
\* the sink as they were, so that a Write of a well-formed tuple after it
\* sees the connection and resolves its Publish call exactly as before it.
C16_ShapeErrorLocal ==
    [][FailingWrite =>
          /\ published' = published
          /\ sink' = sink
          /\ IsConnected' = IsConnected
          /\ \A t \in WellFormed : Resolve(t)' = Resolve(t)]_vars

\* a Write has returned a record-shape error and the sink is connected and
\* open, with its log of Publish calls empty, for the Write that follows
C16_Witness ==
    /\ sink.state = "built" /\ sink.connected /\ sink.disc = <<>>
    /\ last.wrote /\ last.err \in ShapeErrors
    /\ published = <<>>

(* ======================================================================= *)
(* The broker parameter: what NewSource and NewSink store in s.broker and  *)
(* give to AddBroker, and the function adjustOldBrokerURL of which src/    *)
(* holds the test only.                                                    *)
(* ======================================================================= *)

\* the scheme separator and the scheme and port of the old format
SchemeSep == <<":", "/", "/">>
DefaultScheme == <<"t", "c", "p">>
DefaultPort == <<"1", "8", "8", "3">>

\* the parts the broker parameters are made of; None for a part left out
None == <<"none">>
Schemes == {None, <<>>, <<"t", "c", "p">>, <<"w", "s">>}
Hosts == {<<>>, <<"h", "o", "s", "t">>, <<"h", "o", "s", "t", "o", "n", "l", "y">>}
Ports == {None, <<>>, <<"1", "2", "3", "4">>}

\* the string scheme://host:port, without the parts left out
Address(scheme, host, port) ==
    (IF scheme = None THEN <<>> ELSE scheme \o SchemeSep)
    \o host
    \o (IF port = None THEN <<>> ELSE <<":">> \o port)

\* the broker parameters: with a scheme they have a host; the empty string
\* is left out
BrokerParams ==
    ({Address(sc, h, p) : sc \in {None}, h \in Hosts, p \in Ports}
     \cup {Address(sc, h, p) : sc \in Schemes \ {None}, h \in Hosts \ {<<>>},
                               p \in Ports \ {<<>>}})
    \ {<<>>}

\* strings.Index(s, pat), counted from 1, and 0 when pat is not in s
Index(s, pat) ==
    LET at == {i \in 1..(Len(s) - Len(pat) + 1) :
                  SubSeq(s, i, i + Len(pat) - 1) = pat}
    IN  IF at = {} THEN 0 ELSE CHOOSE i \in at : \A j \in at : i <= j

\* an address that is refused
BadAddress == [state |-> "error", addr |-> <<>>]

\* adjustOldBrokerURL(broker)
adjustOldBrokerURL(broker) ==
    LET sep == Index(broker, SchemeSep)
        colon == Index(broker, <<":">>)
        host == IF colon = 0 THEN broker ELSE SubSeq(broker, 1, colon - 1)
        port == IF colon = 0 THEN DefaultPort
                ELSE SubSeq(broker, colon + 1, Len(broker))
    IN  IF sep > 0
        THEN IF sep = 1 THEN BadAddress
             ELSE [state |-> "ok", addr |-> broker]
        ELSE IF host = <<>> \/ port = <<>> THEN BadAddress
             ELSE [state |-> "ok",
                   addr |-> DefaultScheme \o SchemeSep \o host \o <<":">> \o port]

\* the address NewSource stores in s.broker and GenerateStream gives to
\* opts.AddBroker
SourceBroker(b) == [state |-> "ok", addr |-> b]

\* the address NewSink stores in s.broker and gives to s.opts.AddBroker
SinkBroker(b) == [state |-> "ok", addr |-> b]

URLInit ==
    /\ IdleSource /\ NoSink
    /\ \E b \in BrokerParams :
          url = [in |-> b, out |-> NoAddress, source |-> NoAddress,
                 sink |-> NoAddress]

\* a call adjustOldBrokerURL(b)
AdjustOldBrokerURL ==
    /\ url.out = NoAddress
    /\ url' = [url EXCEPT !.out = adjustOldBrokerURL(url.in)]
    /\ UNCHANGED <<sinkVars, msgVars>>
    /\ UNCHANGED <<cfgVars, made, disconnect, loopVars, hstate, disc, cb, stopVars>>

\* NewSource with the broker parameter, and AddBroker in GenerateStream
SourceAddBroker ==
    /\ url.source = NoAddress
    /\ url' = [url EXCEPT !.source = SourceBroker(url.in)]
    /\ UNCHANGED <<sinkVars, msgVars>>
    /\ UNCHANGED <<cfgVars, made, disconnect, loopVars, hstate, disc, cb, stopVars>>

\* NewSink with the broker parameter, up to AddBroker
SinkAddBroker ==
    /\ url.sink = NoAddress
    /\ url' = [url EXCEPT !.sink = SinkBroker(url.in)]
    /\ UNCHANGED <<sinkVars, msgVars>>
    /\ UNCHANGED <<cfgVars, made, disconnect, loopVars, hstate, disc, cb, stopVars>>

URLNext == AdjustOldBrokerURL \/ SourceAddBroker \/ SinkAddBroker

URLSpec == URLInit /\ [][URLNext]_vars

\* the addresses of the test of adjustOldBrokerURL
HostName == <<"h", "o", "s", "t">>
HostOnly == <<"h", "o", "s", "t", "o", "n", "l", "y">>
Port1234 == <<"1", "2", "3", "4">>

\* the table of the test: what adjustOldBrokerURL returns for its seven cases
AdjustsAsTested ==
    url.out # NoAddress =>
        /\ url.in = Address(<<"t", "c", "p">>, HostName, Port1234) =>
               url.out = [state |-> "ok", addr |-> url.in]
        /\ url.in = Address(<<"w", "s">>, HostName, Port1234) =>
               url.out = [state |-> "ok", addr |-> url.in]
        /\ url.in = Address(<<>>, HostName, Port1234) => url.out.state = "error"
        /\ url.in = HostOnly =>
               url.out = [state |-> "ok",
                          addr |-> Address(<<"t", "c", "p">>, HostOnly, DefaultPort)]
        /\ url.in = Address(None, HostName, Port1234) =>
               url.out = [state |-> "ok",
                          addr |-> Address(<<"t", "c", "p">>, HostName, Port1234)]
        /\ url.in = Address(None, HostName, <<>>) => url.out.state = "error"
        /\ url.in = Address(None, <<>>, Port1234) => url.out.state = "error"

\* C15: the broker parameter of the source and of the sink is normalized:
\* the address either of them gives to AddBroker is the address
\* adjustOldBrokerURL returns for the parameter (unchanged with a scheme,
\* tcp://host:port for host:port, tcp://host:1883 for a bare host), and no
\* address is given to AddBroker when the parameter has an empty scheme, an
\* empty port or no host.
C15_BrokerNormalized ==
    /\ url.source # NoAddress => url.source = adjustOldBrokerURL(url.in)
    /\ url.sink # NoAddress => url.sink = adjustOldBrokerURL(url.in)

(* ======================================================================= *)
(* The subscription handler of the source (src/source.go, lines 56-63):    *)
(* the messages the clients of GenerateStream pass to msgHandler and the   *)
(* tuples msgHandler writes to the core.Writer w.                          *)
(* ======================================================================= *)

\* number of messages the broker sends in one run
MaxMessages == 2

\* the messages of the broker: m.Topic() and m.Payload()
Messages ==
    {[topic |-> <<"a">>, payload |-> <<"x">>],
     [topic |-> <<"b">>, payload |-> <<"x">>],
     [topic |-> <<"a">>, payload |-> <<"y", "z">>]}

\* a tuple with the two fields the other way round
NewTupleSwapped(m) == [topic |-> Blob(m.payload), payload |-> String(m.topic)]

\* core.NewTuple(data.Map{"topic": ..., "payload": ...})
NewTuple(m) == [topic |-> String(m.topic), payload |-> Blob(m.payload)]

\* msgHandler(c, m), called by client h for a message of its subscription
msgHandler(h, m) ==
    /\ hstate[h] = "subscribed"
    /\ Len(delivered) < MaxMessages
    /\ delivered' = Append(delivered, m)
    /\ written' = Append(written, NewTuple(m))
    /\ UNCHANGED <<cfgVars, made, disconnect, loopVars, hstate, disc, cb, stopVars>>
    /\ UNCHANGED <<sinkVars, url>>

\* a source with one configuration, to be run with a broker that sends
MessagesInit == minWait = 1 /\ maxWait = 2 /\ reconnRetries = -1
                /\ NewSource /\ NoSink /\ NoURL

MessagesNext ==
    \/ Next
    \/ \E h \in Handles, m \in Messages : msgHandler(h, m)

MessagesSpec == MessagesInit /\ [][MessagesNext]_vars

\* C17: the writer gets exactly one tuple for every message given to
\* msgHandler, with the topic of the message as a string and its payload as
\* a blob and no other field, in the order of the calls, written within the
\* call; nothing is written twice, left out or out of order.
C17_OneTuplePerMessage ==
    /\ Len(written) = Len(delivered)
    /\ \A i \in 1..Len(delivered) :
          /\ DOMAIN written[i] = {"topic", "payload"}
          /\ written[i].topic = [type |-> "string", val |-> delivered[i].topic,
                                 num |-> 0]
          /\ written[i].payload = [type |-> "blob",
                                   val |-> delivered[i].payload, num |-> 0]

\* two different messages have been delivered, the second by a later client
C17_Witness ==
    /\ Len(delivered) = 2
    /\ delivered[1] # delivered[2]
    /\ client > 1
    /\ Len(written) = 2

(* ----------------- claims on the reconnect loop, C18-C20 ---------------- *)

\* C18: the loop goes on from Connect to Subscribe only with a client whose
\* connect has completed with success, and resets waitUntilReconnect and
\* retries and enters Active only with a client whose subscribe has
\* completed with success too; a token that has not completed when its
\* 10 s wait ends is never taken for a success.
C18_ActiveOnlyAfterSuccess ==
    [][/\ (pc = "connect" /\ pc' = "subscribe") => hstate'[client] = "connected"
       /\ (pc = "subscribe" /\ pc' = "active") =>
              hstate'[client] = "subscribed"]_vars

\* C19: the select of the loop is left for the next Connect only when the
\* timer of waitUntilReconnect has fired; the one thing that ends the wait
\* before that is the false of Stop, with which GenerateStream returns nil.
\* A true of OnConnectionLost, sent before or during the wait, does not
\* end it.
C19_WaitNotShortened ==
    [][/\ (pc = "wait" /\ pc' = "connect") => timer = "fired"
       /\ (pc = "wait" /\ pc' = "done") =>
              (Consumes(FALSE) /\ result' = "nil")]_vars

\* this step is a Subscribe that failed
SubscribeFailure == pc = "subscribe" /\ pc' \in {"wait", "done"}

\* C20: every failure of Subscribe discards the client that failed with
\* Disconnect(0) and makes a new client, both before the backoff is applied
\* and so also when the backoff gives up; the Connect that follows is made
\* on the new client, and the client that failed is not the loop's client
\* again.
C20_FailedHandleDiscarded ==
    [][/\ SubscribeFailure =>
              /\ disc'[client] = Append(disc[client], 0)
              /\ client' = client + 1
              /\ hstate'[client'] = "new"
       /\ client' >= client]_vars

(* ------------ claims on the connected state and the return, C21-C24 ---- *)

\* C21: when the loop receives the true of OnConnectionLost in the
\* connected state, it makes a new client, calls Disconnect on no client,
\* and goes back to the select with waitUntilReconnect and retries at zero,
\* so that the timer has fired at once and the next Connect is made on the
\* new client.
C21_LostInActive ==
    [][(pc = "active" /\ Consumes(TRUE)) =>
          /\ client' = client + 1
          /\ hstate'[client'] = "new"
          /\ disc' = disc
          /\ pc' = "wait"
          /\ waitUntilReconnect' = 0
          /\ retries' = 0
          /\ timer' = "fired"
          /\ result' = "none"]_vars

\* client 1 lost its connection in the connected state and the loop has
\* taken its signal: client 2 is new, client 1 was never disconnected, and
\* the wait before the next Connect is zero
C21_Witness ==
    /\ pc = "wait" /\ client = 2
    /\ hstate[1] = "lost" /\ cb[1] = "done" /\ disc[1] = <<>>
    /\ hstate[2] = "new"
    /\ disconnect = <<>>
    /\ waitUntilReconnect = 0 /\ retries = 0 /\ timer = "fired"

\* C22: when the loop receives the false of Stop in the connected state, it
\* calls Disconnect(250) on its client, once, and GenerateStream returns
\* nil; after the return the loop makes no Connect, no Subscribe, no new
\* client and no further Disconnect call.
C22_StopInActive ==
    [][/\ (pc = "active" /\ Consumes(FALSE)) =>
              /\ disc'[client] = <<250>>
              /\ \A h \in Handles \ {client} : disc'[h] = disc[h]
              /\ client' = client
              /\ pc' = "done"
              /\ result' = "nil"
       /\ pc = "done" =>
              /\ pc' = "done" /\ result' = result /\ client' = client
              /\ disc' = disc
              /\ \A h \in Handles :
                    hstate'[h] \in {"connected", "subscribing", "subscribed"}
                        => hstate[h] \in {"connecting", "connected",
                                          "subscribing", "subscribed"}]_vars

\* a stop received in the connected state has ended the run: the current
\* client, which was subscribed, has its one Disconnect(250)
C22_Witness ==
    /\ pc = "done" /\ result = "nil"
    /\ disc[client] = <<250>>
    /\ hstate[client] = "closed"
    /\ stopReturned > 0

\* C23: GenerateStream returns nil only if Stop was called: as long as no
\* Stop call has sent, or is blocked sending, on s.disconnect, the run goes
\* on or has returned the error of backoff(); connection losses and failed
\* Connect and Subscribe calls do not make it return nil.
C23_NilOnlyAfterStop ==
    /\ result = "nil" => StopSent
    /\ ~StopSent => (result \in {"none", "err"} /\ disconnect # <<FALSE>>)
    /\ result = "nil" <=> (pc = "done" /\ result # "err")

\* the run has returned nil after a Stop, although a client had lost its
\* connection and the loop had taken the signal before
C23_Witness ==
    /\ result = "nil"
    /\ StopSent
    /\ \E h \in Handles : hstate[h] = "lost" /\ cb[h] = "done"
    /\ disconnect = <<>>

\* C24: once GenerateStream has returned, with nil or with the error of
\* backoff(), no client it made is connected or subscribed: every client
\* that connected has lost its connection or has had a Disconnect call.
C24_NoHandleLeftConnected ==
    pc = "done" =>
        \A h \in Handles :
            /\ ~Connected(h)
            /\ hstate[h] = "closed" => disc[h] # <<>>

====
